---- MODULE Spec2Model ----
(***************************************************************************)
(* Model of the bootstrap ingestion pipeline of the spacetraders client    *)
(* (src/src/main.rs): ensure_systems_data, create_systems_table and        *)
(* create_waypoints_table running against a relational store, with the     *)
(* paginated catalog fetch get_systems_all behind them.                    *)
(*                                                                         *)
(* Every fallible call of the source is followed by .expect(..): a failed  *)
(* call panics and the process terminates.  A later process run starts     *)
(* main again against the store the earlier run left behind.               *)
(*                                                                         *)
(* Every request of the API client passes RateLimitMiddleware, the token   *)
(* bucket that grants one permit per request.  The governor delays a       *)
(* request; it neither changes nor fails it.  The pipeline specifications  *)
(* therefore leave the governor at rest, and the governor has              *)
(* specifications of its own in which concurrent callers compete for       *)
(* permits while the pipeline is at rest.                                  *)
(***************************************************************************)
EXTENDS Integers, Sequences, FiniteSets, TLC

\* ---------------------------------------------------------------------
\* Bounds of the model
\* ---------------------------------------------------------------------
MaxSystems == 3
MaxWaypoints == 2
MaxPageSize == 2
MaxRuns == 2
MaxChunks == 2
\* Concurrent callers of the governor's acquire()
NumCallers == 2
\* Capacity C of the token bucket, in tokens
Capacity == 2
\* Clock ticks the bucket takes to refill one token (R = 1 / TicksPerToken)
TicksPerToken == 2

\* ---------------------------------------------------------------------
\* Program constants
\* ---------------------------------------------------------------------
\* const BIND_LIMIT: usize = 65535;
BIND_LIMIT == 65535
\* push_bind calls per systems row (symbol, sector_symbol, type, x, y, factions)
SystemsColumns == 6
\* push_bind calls per waypoints row (symbol, type, system_symbol, x, y)
WaypointsColumns == 5

VARIABLES
    store,            \* the relational store: table name -> [exists, rows]
    transaction,      \* the open insertion transaction: [open, table, rows]
    pc,               \* position of the process in main / ensure_systems_data
    systems_exists,   \* local of ensure_systems_data
    waypoints_exists, \* local of ensure_systems_data
    systems,          \* local of ensure_systems_data: the fetched catalog
    idx,              \* loop position of the running loader (chunk / system index)
    fetch,            \* the running get_systems_all call: [upstream, limit,
                      \* page, acc, requests, ok]
    stmts,            \* insert statements issued by this run: [table, rows]
    log,              \* operations attempted by this run: [op, table, ok]
    run,              \* number of the process run
    prev,             \* how the previous run ended: [result, booted]
    store0,           \* the store as this run found it
    external,         \* the store was changed from outside since the previous run
    tokens,           \* token bucket: current token count T, in units of
                      \* 1 / TicksPerToken token
    elapsed,          \* token bucket: ticks since the last-refill timestamp
    holder,           \* the caller inside the bucket's serialization point
    gpc,              \* position of each caller in acquire()
    reg,              \* each caller's recomputed token count
    sleep,            \* ticks left of each suspended caller's wait
    credit            \* initial tokens + tokens refilled - permits granted

\* The state of the pipeline and the state of the governor
pipeline == <<store, transaction, pc, systems_exists, waypoints_exists, systems, idx,
              fetch, stmts, log, run, prev, store0, external>>

governor == <<tokens, elapsed, holder, gpc, reg, sleep, credit>>

vars == <<store, transaction, pc, systems_exists, waypoints_exists, systems, idx,
          fetch, stmts, log, run, prev, store0, external,
          tokens, elapsed, holder, gpc, reg, sleep, credit>>

Tables == {"systems", "waypoints"}

\* ---------------------------------------------------------------------
\* Domain entities
\* ---------------------------------------------------------------------
\* The sequence f[1], ..., f[n]
Tuple(f, n) == SubSeq(f, 1, n)

\* A System with symbol i and w nested waypoints.
MkSystem(i, w) ==
    [symbol |-> i, waypoints |-> Tuple([j \in 1..w |-> [symbol |-> <<i, j>>]], w)]

\* A catalog of n systems; system i has (i + shift) % (MaxWaypoints + 1)
\* waypoints, so that empty, single and multiple waypoint lists all occur.
Catalog(n, shift) ==
    Tuple([i \in 1..n |-> MkSystem(i, (i + shift) % (MaxWaypoints + 1))], n)

\* The catalogs the upstream may serve: up to MaxSystems systems, each with
\* up to MaxWaypoints waypoints.
Catalogs == {Catalog(n, shift) : n \in 0..MaxSystems, shift \in 0..MaxWaypoints}

Min(a, b) == IF a <= b THEN a ELSE b

\* ---------------------------------------------------------------------
\* The relational store
\* ---------------------------------------------------------------------
Absent == [exists |-> FALSE, rows |-> <<>>]

NoTransaction == [open |-> FALSE, table |-> "", rows |-> <<>>]

\* SELECT FROM pg_tables WHERE schemaname = 'public' AND tablename = t,
\* rows_affected() > 0
TableExists(st, t) == st[t].exists

\* DROP TABLE IF EXISTS t, executed on the pool (autocommit)
DropTableIfExists(st, t) == [st EXCEPT ![t] = Absent]

\* Faulty variant: the CREATE TABLE is issued inside a transaction that is
\* never committed, so the store never shows the table
CreateInTransaction(st, t) == st

\* CREATE TABLE t (...), executed on the pool (autocommit): an empty table
CreateTable(st, t) == [st EXCEPT ![t] = [exists |-> TRUE, rows |-> <<>>]]

\* CREATE TABLE is rejected when the table exists; otherwise it may
\* succeed or fail.
CreateOutcomes(st, t) == IF TableExists(st, t) THEN {FALSE} ELSE BOOLEAN

\* pool.begin(): a transaction with no pending rows
Begin(t) == [open |-> TRUE, table |-> t, rows |-> <<>>]

\* Faulty variant: the insert is executed on the pool instead of the
\* transaction, so its rows are visible at once
ExecuteOnPool(st, tx, rows) == <<[st EXCEPT ![tx.table].rows = @ \o rows], tx>>

\* query.execute(&mut transaction): the rows become pending in the
\* transaction; the store's visible rows are untouched until the commit.
\* The result is the pair <<store, transaction>>.
ExecuteInsert(st, tx, rows) == <<st, [tx EXCEPT !.rows = @ \o rows]>>

\* transaction.commit(): every pending row becomes visible at once
Commit(st, tx) == [st EXCEPT ![tx.table].rows = @ \o tx.rows]

\* Faulty variant: the error is dropped and the caller carries on
ExpectIgnored(ok, next) == next

\* .expect(..): continue at next on Ok, panic on Err
Expect(ok, next) == IF ok THEN next ELSE "panicked"

\* ---------------------------------------------------------------------
\* Rows bound by the loaders
\* ---------------------------------------------------------------------
\* b.push_bind(&system.symbol) ... : one systems row per System
SystemRow(system) == [symbol |-> system.symbol]

\* Faulty variant: a field of the waypoint (here its ordinal within the
\* system) is bound where the enclosing system's symbol belongs
WaypointRowSelf(system, waypoint) ==
    [symbol |-> waypoint.symbol, system_symbol |-> waypoint.symbol[2]]

\* b.push_bind(&waypoint.symbol) ... .push_bind(&system.symbol): one
\* waypoints row per nested waypoint, carrying the enclosing system's symbol
WaypointRow(system, waypoint) ==
    [symbol |-> waypoint.symbol, system_symbol |-> system.symbol]

SystemRows(chunk) ==
    Tuple([i \in 1..Len(chunk) |-> SystemRow(chunk[i])], Len(chunk))

WaypointRows(system) ==
    Tuple([j \in 1..Len(system.waypoints) |-> WaypointRow(system, system.waypoints[j])],
          Len(system.waypoints))

\* Faulty variant: chunks_exact(size), which leaves out a shorter last chunk
NumChunksExact(s, size) == Len(s) \div size

\* slice.chunks(size): consecutive chunks of size elements, the last one
\* shorter when Len(s) is no multiple of size
NumChunks(s, size) == (Len(s) + size - 1) \div size

\* Faulty variant: every chunk starts one element late
ChunkOffByOne(s, size, i) == SubSeq(s, (i - 1) * size + 2, Min(i * size + 1, Len(s)))

\* The i-th chunk (1-based) of s.chunks(size)
Chunk(s, size, i) == SubSeq(s, (i - 1) * size + 1, Min(i * size, Len(s)))

\* Parameters bound by an insert statement: rows * push_bind calls per row
Binds(stmt) ==
    Len(stmt.rows) * (IF stmt.table = "systems" THEN SystemsColumns
                      ELSE WaypointsColumns)

\* A statement with more parameters than the protocol's ceiling is rejected
\* by the store; any other statement may succeed or fail.
Outcomes(stmt) == IF Binds(stmt) > BIND_LIMIT THEN {FALSE} ELSE BOOLEAN

\* Faulty variant: no `continue`, every system gets an insert statement
NoSkip(s, i) == i

\* Index of the first system at or after i with a non-empty waypoint
\* list (the loop's `continue` skips the others); Len + 1 when none is left.
NextNonEmpty(s, i) ==
    LET rest == {k \in i..Len(s) : Len(s[k].waypoints) > 0}
    IN  IF rest = {} THEN Len(s) + 1
        ELSE CHOOSE k \in rest : \A m \in rest : k <= m

\* ---------------------------------------------------------------------
\* ensure_systems_data
\* ---------------------------------------------------------------------
\* Faulty variant: the bootstrap runs whatever the existence checks found
AlwaysBootstrap(se, we) == TRUE

\* if !systems_exists || !waypoints_exists
NeedsBootstrap(se, we) == ~se \/ ~we

\* Faulty variants: a loader call is missing from the bootstrap branch
SkipSystemsLoad == "cwt_drop"
SkipWaypointsLoad == "menu"

\* Control flow of the bootstrap branch: get_systems_all, then
\* create_systems_table, then create_waypoints_table, then return to main.
AfterFetch == "cst_drop"
AfterSystems == "cwt_drop"
AfterWaypoints == "menu"

\* systems.chunks(BIND_LIMIT / 6)
SystemsChunkSize == BIND_LIMIT \div 6

Logged(op, t, ok) == Append(log, [op |-> op, table |-> t, ok |-> ok])

\* let systems_exists = sqlx::query("SELECT FROM pg_tables ...").expect(..)
select_systems ==
    /\ pc = "select_systems"
    /\ \E ok \in BOOLEAN :
        /\ systems_exists' = IF ok THEN TableExists(store, "systems") ELSE systems_exists
        /\ pc' = Expect(ok, "select_waypoints")
        /\ log' = Logged("select", "systems", ok)
    /\ UNCHANGED <<store, transaction, waypoints_exists, systems, idx, fetch, stmts, run, prev, store0, external, governor>>

\* let waypoints_exists = sqlx::query("SELECT FROM pg_tables ...").expect(..)
select_waypoints ==
    /\ pc = "select_waypoints"
    /\ \E ok \in BOOLEAN :
        /\ waypoints_exists' = IF ok THEN TableExists(store, "waypoints") ELSE waypoints_exists
        /\ pc' = Expect(ok, "decide")
        /\ log' = Logged("select", "waypoints", ok)
    /\ UNCHANGED <<store, transaction, systems_exists, systems, idx, fetch, stmts, run, prev, store0, external, governor>>

\* Both tables present: ensure_systems_data returns, main enters its menu loop
cache_present ==
    /\ pc = "decide"
    /\ ~NeedsBootstrap(systems_exists, waypoints_exists)
    /\ pc' = "menu"
    /\ UNCHANGED <<store, transaction, systems_exists, waypoints_exists, systems,
                   idx, fetch, stmts, log, run, prev, store0,
                   external, governor>>

\* No get_systems_all call is running
NoFetch ==
    [upstream |-> <<>>, limit |-> 0, page |-> 0, acc |-> <<>>, requests |-> <<>>,
     ok |-> FALSE]

\* A table is missing: get_systems_all(&CONFIGURATION) is called.  The
\* upstream serves some catalog, in pages of some fixed size.
get_systems_all ==
    /\ pc = "decide"
    /\ NeedsBootstrap(systems_exists, waypoints_exists)
    /\ \E catalog \in Catalogs, limit \in 1..MaxPageSize :
        fetch' = [upstream |-> catalog, limit |-> limit, page |-> 1, acc |-> <<>>,
                  requests |-> <<>>, ok |-> FALSE]
    /\ pc' = "fetch"
    /\ UNCHANGED <<store, transaction, systems_exists, waypoints_exists, systems,
                   idx, stmts, log, run, prev, store0, external, governor>>

\* ---------------------------------------------------------------------
\* get_systems_all: the paginated catalog fetch
\* ---------------------------------------------------------------------
\* The listing endpoint: page `page` (1-based) of `limit` items
PageItems(catalog, page, limit) ==
    SubSeq(catalog, (page - 1) * limit + 1, Min(page * limit, Len(catalog)))

\* Faulty variant: the stop test is never met by a catalog of total 0
FetchDoneNonEmpty(page, limit, total) == total > 0 /\ page * limit >= total

\* Faulty variant: the fetch asks for one more page when the last page is full
FetchDoneStrict(page, limit, total) == page * limit > total

\* The fetch stops once page * page_size >= total
FetchDone(page, limit, total) == page * limit >= total

\* One page request of the fetch: a failed request aborts the fetch with
\* an error; a successful one accumulates its items and either ends the
\* fetch with the accumulated items or moves on to the next page.
get_systems_page ==
    /\ pc = "fetch"
    /\ \E ok \in BOOLEAN :
        LET acc == fetch.acc \o PageItems(fetch.upstream, fetch.page, fetch.limit)
            last == FetchDone(fetch.page, fetch.limit, Len(fetch.upstream))
            requested == [fetch EXCEPT !.requests = Append(@, fetch.page)]
        IN  /\ fetch' = IF ~ok THEN [requested EXCEPT !.ok = FALSE]
                        ELSE IF last THEN [requested EXCEPT !.acc = acc, !.ok = TRUE]
                        ELSE [requested EXCEPT !.acc = acc, !.page = @ + 1]
            /\ pc' = IF ok /\ ~last THEN pc ELSE "fetched"
    /\ UNCHANGED <<store, transaction, systems_exists, waypoints_exists, systems,
                   idx, stmts, log, run, prev, store0, external, governor>>

\* Faulty variant: the fetch error is swallowed and the loads run anyway
IgnoreFetchError(ok) == AfterFetch

\* .expect("Get all systems"): Ok continues with the loads, Err panics
OnFetchResult(ok) == Expect(ok, AfterFetch)

\* let systems = get_systems_all(..).await.expect("Get all systems")
get_systems_all_return ==
    /\ pc = "fetched"
    /\ systems' = IF fetch.ok THEN fetch.acc ELSE systems
    /\ pc' = OnFetchResult(fetch.ok)
    /\ log' = Logged("fetch", "api", fetch.ok)
    /\ fetch' = NoFetch
    /\ UNCHANGED <<store, transaction, systems_exists, waypoints_exists, idx,
                   stmts, run, prev, store0, external, governor>>

\* ---------------------------------------------------------------------
\* create_systems_table
\* ---------------------------------------------------------------------
\* sqlx::query("DROP TABLE IF EXISTS systems").execute(pool).expect(..)
create_systems_table_drop ==
    /\ pc = "cst_drop"
    /\ \E ok \in BOOLEAN :
        /\ store' = IF ok THEN DropTableIfExists(store, "systems") ELSE store
        /\ pc' = Expect(ok, "cst_create")
        /\ log' = Logged("drop", "systems", ok)
    /\ UNCHANGED <<transaction, systems_exists, waypoints_exists, systems, idx,
                   fetch, stmts, run, prev, store0, external, governor>>

\* sqlx::query("CREATE TABLE systems (...)").execute(pool).expect(..)
create_systems_table_create ==
    /\ pc = "cst_create"
    /\ \E ok \in CreateOutcomes(store, "systems") :
        /\ store' = IF ok THEN CreateTable(store, "systems") ELSE store
        /\ pc' = Expect(ok, "cst_begin")
        /\ log' = Logged("create", "systems", ok)
    /\ UNCHANGED <<transaction, systems_exists, waypoints_exists, systems, idx,
                   fetch, stmts, run, prev, store0, external, governor>>

\* let mut transaction = pool.begin().expect(..)
create_systems_table_begin ==
    /\ pc = "cst_begin"
    /\ \E ok \in BOOLEAN :
        /\ transaction' = IF ok THEN Begin("systems") ELSE transaction
        /\ pc' = Expect(ok, "cst_loop")
        /\ log' = Logged("begin", "systems", ok)
    /\ idx' = 1
    /\ UNCHANGED <<store, systems_exists, waypoints_exists, systems, fetch, stmts, run, prev, store0, external, governor>>

\* One iteration of `for systems_chunk in systems.chunks(BIND_LIMIT / 6)`:
\* build the multi-row insert and execute it in the transaction.  A failed
\* statement panics; the transaction is dropped uncommitted.
create_systems_table_insert ==
    /\ pc = "cst_loop"
    /\ idx <= NumChunks(systems, SystemsChunkSize)
    /\ LET stmt == [table |-> "systems",
                    rows |-> SystemRows(Chunk(systems, SystemsChunkSize, idx))]
           done == ExecuteInsert(store, transaction, stmt.rows)
       IN  /\ stmts' = Append(stmts, stmt)
           /\ \E ok \in Outcomes(stmt) :
               /\ store' = IF ok THEN done[1] ELSE store
               /\ transaction' = IF ok THEN done[2] ELSE NoTransaction
               /\ pc' = Expect(ok, pc)
               /\ log' = Logged("insert", "systems", ok)
    /\ idx' = idx + 1
    /\ UNCHANGED <<systems_exists, waypoints_exists, systems, fetch, run, prev, store0, external, governor>>

\* transaction.commit().expect(..) once every chunk has been executed
create_systems_table_commit ==
    /\ pc = "cst_loop"
    /\ idx > NumChunks(systems, SystemsChunkSize)
    /\ \E ok \in BOOLEAN :
        /\ store' = IF ok THEN Commit(store, transaction) ELSE store
        /\ pc' = Expect(ok, AfterSystems)
        /\ log' = Logged("commit", "systems", ok)
    /\ transaction' = NoTransaction
    /\ UNCHANGED <<systems_exists, waypoints_exists, systems, idx, fetch, stmts, run, prev, store0, external, governor>>

\* ---------------------------------------------------------------------
\* create_waypoints_table
\* ---------------------------------------------------------------------
\* sqlx::query("DROP TABLE IF EXISTS waypoints").execute(pool).expect(..)
create_waypoints_table_drop ==
    /\ pc = "cwt_drop"
    /\ \E ok \in BOOLEAN :
        /\ store' = IF ok THEN DropTableIfExists(store, "waypoints") ELSE store
        /\ pc' = Expect(ok, "cwt_create")
        /\ log' = Logged("drop", "waypoints", ok)
    /\ UNCHANGED <<transaction, systems_exists, waypoints_exists, systems, idx,
                   fetch, stmts, run, prev, store0, external, governor>>

\* sqlx::query("CREATE TABLE waypoints (...)").execute(pool).expect(..)
create_waypoints_table_create ==
    /\ pc = "cwt_create"
    /\ \E ok \in CreateOutcomes(store, "waypoints") :
        /\ store' = IF ok THEN CreateTable(store, "waypoints") ELSE store
        /\ pc' = Expect(ok, "cwt_begin")
        /\ log' = Logged("create", "waypoints", ok)
    /\ UNCHANGED <<transaction, systems_exists, waypoints_exists, systems, idx,
                   fetch, stmts, run, prev, store0, external, governor>>

\* let mut transaction = pool.begin().expect(..)
create_waypoints_table_begin ==
    /\ pc = "cwt_begin"
    /\ \E ok \in BOOLEAN :
        /\ transaction' = IF ok THEN Begin("waypoints") ELSE transaction
        /\ pc' = Expect(ok, "cwt_loop")
        /\ log' = Logged("begin", "waypoints", ok)
    /\ idx' = 1
    /\ UNCHANGED <<store, systems_exists, waypoints_exists, systems, fetch, stmts, run, prev, store0, external, governor>>

\* `for system in systems`: systems with an empty waypoint list `continue`;
\* the next system with waypoints gets one insert statement holding all of
\* its waypoints, executed in the transaction.
create_waypoints_table_insert ==
    /\ pc = "cwt_loop"
    /\ NextNonEmpty(systems, idx) <= Len(systems)
    /\ LET k == NextNonEmpty(systems, idx)
           stmt == [table |-> "waypoints", rows |-> WaypointRows(systems[k])]
           done == ExecuteInsert(store, transaction, stmt.rows)
       IN  /\ stmts' = Append(stmts, stmt)
           /\ idx' = k + 1
           /\ \E ok \in Outcomes(stmt) :
               /\ store' = IF ok THEN done[1] ELSE store
               /\ transaction' = IF ok THEN done[2] ELSE NoTransaction
               /\ pc' = Expect(ok, pc)
               /\ log' = Logged("insert", "waypoints", ok)
    /\ UNCHANGED <<systems_exists, waypoints_exists, systems, fetch, run, prev, store0, external, governor>>

\* transaction.commit().expect(..) once every system has been visited
create_waypoints_table_commit ==
    /\ pc = "cwt_loop"
    /\ NextNonEmpty(systems, idx) > Len(systems)
    /\ \E ok \in BOOLEAN :
        /\ store' = IF ok THEN Commit(store, transaction) ELSE store
        /\ pc' = Expect(ok, AfterWaypoints)
        /\ log' = Logged("commit", "waypoints", ok)
    /\ transaction' = NoTransaction
    /\ idx' = Len(systems) + 1
    /\ UNCHANGED <<systems_exists, waypoints_exists, systems, fetch, stmts, run, prev, store0, external, governor>>

\* ---------------------------------------------------------------------
\* The rate governor: acquire() of the token bucket
\* ---------------------------------------------------------------------
\* Time is counted in ticks and the bucket refills one token every
\* TicksPerToken ticks.  Token amounts are counted in units of
\* 1 / TicksPerToken token, so that the refill `elapsed * R` of `elapsed`
\* ticks is `elapsed` units and fractional token counts are integers.
Callers == 1..NumCallers

\* One token, and the capacity C, in units
OneToken == TicksPerToken

Full == Capacity * OneToken

NoHolder == 0

\* Faulty variant: the refill is not capped at the capacity
RefillUncapped(t, e) == t + e

\* Lazy refill at acquisition time: min(C, T + elapsed * R)
Refill(t, e) == Min(Full, t + e)

\* The recomputed T is at least one token
HasToken(t) == t >= OneToken

\* Consume one token
Consume(t) == t - OneToken

\* Wait until the next token would be available: (1 - T) / R
WaitTicks(t) == OneToken - t

\* Faulty variant: a shared counter with no serialization point
MutexAlwaysFree(h) == TRUE

\* The serialization point of the bucket's read-modify-write is free
MutexFree(h) == h = NoHolder

\* A request of caller c reaches the middleware, which calls acquire()
acquire(c) ==
    /\ gpc[c] = "idle"
    /\ gpc' = [gpc EXCEPT ![c] = "lock"]
    /\ UNCHANGED <<tokens, elapsed, holder, reg, sleep, credit, pipeline>>

\* The caller enters the serialization point
acquire_lock(c) ==
    /\ gpc[c] = "lock"
    /\ MutexFree(holder)
    /\ holder' = c
    /\ gpc' = [gpc EXCEPT ![c] = "refill"]
    /\ UNCHANGED <<tokens, elapsed, reg, sleep, credit, pipeline>>

\* T := min(C, T + elapsed * R); last-refill timestamp := now
acquire_refill(c) ==
    /\ gpc[c] = "refill"
    /\ LET t == Refill(tokens, elapsed)
       IN  /\ tokens' = t
           /\ reg' = [reg EXCEPT ![c] = t]
           /\ credit' = credit + (t - tokens)
    /\ elapsed' = 0
    /\ gpc' = [gpc EXCEPT ![c] = "check"]
    /\ UNCHANGED <<holder, sleep, pipeline>>

\* Recomputed T >= 1: consume one token, leave the serialization point and
\* return the permit
acquire_consume(c) ==
    /\ gpc[c] = "check"
    /\ HasToken(reg[c])
    /\ tokens' = Consume(reg[c])
    /\ credit' = credit - OneToken
    /\ holder' = NoHolder
    /\ reg' = [reg EXCEPT ![c] = 0]
    /\ gpc' = [gpc EXCEPT ![c] = "granted"]
    /\ UNCHANGED <<elapsed, sleep, pipeline>>

\* Recomputed T < 1: leave the serialization point and suspend for
\* (1 - T) / R
acquire_wait(c) ==
    /\ gpc[c] = "check"
    /\ ~HasToken(reg[c])
    /\ sleep' = [sleep EXCEPT ![c] = WaitTicks(reg[c])]
    /\ holder' = NoHolder
    /\ reg' = [reg EXCEPT ![c] = 0]
    /\ gpc' = [gpc EXCEPT ![c] = "sleeping"]
    /\ UNCHANGED <<tokens, elapsed, credit, pipeline>>

\* The wait is over: retry
acquire_retry(c) ==
    /\ gpc[c] = "sleeping"
    /\ sleep[c] = 0
    /\ gpc' = [gpc EXCEPT ![c] = "lock"]
    /\ UNCHANGED <<tokens, elapsed, holder, reg, sleep, credit, pipeline>>

\* The permitted request is sent; the caller may come back with another one
acquire_return(c) ==
    /\ gpc[c] = "granted"
    /\ gpc' = [gpc EXCEPT ![c] = "idle"]
    /\ UNCHANGED <<tokens, elapsed, holder, reg, sleep, credit, pipeline>>

\* The clock advances by one tick.  The read-modify-write holds no
\* suspension point, so no time passes inside it.  Elapsed time beyond a
\* full refill changes nothing and is not counted.
Tick ==
    /\ holder = NoHolder
    /\ elapsed' = Min(elapsed + 1, Full)
    /\ sleep' = [c \in Callers |-> IF sleep[c] > 0 THEN sleep[c] - 1 ELSE 0]
    /\ UNCHANGED <<tokens, holder, gpc, reg, credit, pipeline>>

\* No caller is in acquire(); the bucket holds t0 units
Bucket(t0) ==
    /\ tokens = t0
    /\ credit = t0
    /\ elapsed = 0
    /\ holder = NoHolder
    /\ gpc = [c \in Callers |-> "idle"]
    /\ reg = [c \in Callers |-> 0]
    /\ sleep = [c \in Callers |-> 0]

\* ---------------------------------------------------------------------
\* Process runs
\* ---------------------------------------------------------------------
Terminated == pc \in {"menu", "panicked", "killed"}

\* The process is terminated from outside while ensure_systems_data runs:
\* its connections close and an open transaction is never committed.
terminated ==
    /\ ~Terminated
    /\ pc' = "killed"
    /\ transaction' = NoTransaction
    /\ UNCHANGED <<store, systems_exists, waypoints_exists, systems, idx, fetch,
                   stmts, log, run, prev, store0, external, governor>>

Called(op) == \E i \in 1..Len(log) : log[i].op = op

\* The process has ended (normally or by a panic) and is started again
\* later.  Between the two runs tables may have been dropped from the store by someone else.
main ==
    /\ Terminated
    /\ run < MaxRuns
    /\ run' = run + 1
    /\ \E dropped \in SUBSET Tables :
        /\ store' = [t \in Tables |-> IF t \in dropped THEN Absent ELSE store[t]]
        /\ external' = (store' # store)
        /\ store0' = store'
    /\ prev' = [result |-> pc, booted |-> Called("fetch")]
    /\ pc' = "select_systems"
    /\ transaction' = NoTransaction
    /\ systems_exists' = FALSE
    /\ waypoints_exists' = FALSE
    /\ systems' = <<>>
    /\ idx' = 0
    /\ fetch' = NoFetch
    /\ stmts' = <<>>
    /\ log' = <<>>
    /\ UNCHANGED governor

Locals0 ==
    /\ transaction = NoTransaction
    /\ systems_exists = FALSE
    /\ waypoints_exists = FALSE
    /\ idx = 0
    /\ fetch = NoFetch
    /\ stmts = <<>>
    /\ log = <<>>
    /\ run = 1
    /\ prev = [result |-> "none", booted |-> FALSE]
    /\ external = FALSE

\* First start of the process against a fresh database
Init ==
    /\ store = [t \in Tables |-> Absent]
    /\ store0 = store
    /\ systems = <<>>
    /\ pc = "select_systems"
    /\ Locals0
    /\ Bucket(Full)

Load ==
    \/ create_systems_table_drop
    \/ create_systems_table_create
    \/ create_systems_table_begin
    \/ create_systems_table_insert
    \/ create_systems_table_commit
    \/ create_waypoints_table_drop
    \/ create_waypoints_table_create
    \/ create_waypoints_table_begin
    \/ create_waypoints_table_insert
    \/ create_waypoints_table_commit

Next ==
    \/ select_systems
    \/ select_waypoints
    \/ cache_present
    \/ get_systems_all
    \/ get_systems_page
    \/ get_systems_all_return
    \/ Load
    \/ terminated
    \/ main

Spec == Init /\ [][Next]_vars

\* ---------------------------------------------------------------------
\* The loaders on large inputs
\* ---------------------------------------------------------------------
\* A catalog of n systems in which the first system has w waypoints, the
\* last one has one and the others have none.
LargeCatalog(n, w) ==
    Tuple([i \in 1..n |-> MkSystem(i, IF i = 1 THEN w ELSE IF i = n THEN 1 ELSE 0)], n)

\* Input sizes around the chunk boundaries and around the bind limit
LoadSizes ==
    {0, 1} \cup UNION {{c * SystemsChunkSize, c * SystemsChunkSize + 1} : c \in 1..MaxChunks}

LoadWaypoints ==
    {0, 1, BIND_LIMIT \div WaypointsColumns, BIND_LIMIT \div WaypointsColumns + 1}

LoadInputs == {LargeCatalog(n, w) : n \in LoadSizes, w \in LoadWaypoints}

\* ensure_systems_data has fetched `systems` and calls the two loaders
InitLoad ==
    /\ store = [t \in Tables |-> Absent]
    /\ store0 = store
    /\ systems \in LoadInputs
    /\ pc = AfterFetch
    /\ Locals0
    /\ Bucket(Full)

SpecLoad == InitLoad /\ [][Load]_vars

\* ---------------------------------------------------------------------
\* The governor under concurrent callers
\* ---------------------------------------------------------------------
\* The bucket starts with any token count; the pipeline is at rest
InitGovernor ==
    /\ store = [t \in Tables |-> Absent]
    /\ store0 = store
    /\ systems = <<>>
    /\ pc = "menu"
    /\ Locals0
    /\ \E t0 \in 0..Full : Bucket(t0)

NextGovernor ==
    \/ \E c \in Callers : acquire(c)
    \/ \E c \in Callers : acquire_lock(c)
    \/ \E c \in Callers : acquire_refill(c)
    \/ \E c \in Callers : acquire_consume(c)
    \/ \E c \in Callers : acquire_wait(c)
    \/ \E c \in Callers : acquire_retry(c)
    \/ \E c \in Callers : acquire_return(c)
    \/ Tick

SpecGovernor == InitGovernor /\ [][NextGovernor]_vars

\* Scheduling: the clock advances; a task that can take its next step
\* inside acquire() is run; the serialization point admits every caller
\* that keeps asking for it.  Nothing obliges a caller to send a request.
GovernorFairness ==
    /\ WF_vars(Tick)
    /\ \A c \in Callers :
          /\ SF_vars(acquire_lock(c))
          /\ WF_vars(acquire_refill(c) \/ acquire_consume(c) \/ acquire_wait(c)
                         \/ acquire_retry(c) \/ acquire_return(c))

SpecGovernorFair == SpecGovernor /\ GovernorFairness

\* ---------------------------------------------------------------------
\* Vocabulary of the properties
\* ---------------------------------------------------------------------
WriteOps == {"drop", "create", "begin", "insert", "commit"}

\* Operations of the given kinds attempted by this run
Count(ops) == Cardinality({i \in 1..Len(log) : log[i].op \in ops})

CountOn(op, t) ==
    Cardinality({i \in 1..Len(log) : log[i].op = op /\ log[i].table = t})

Succeeded(op, t) ==
    \E i \in 1..Len(log) : log[i] = [op |-> op, table |-> t, ok |-> TRUE]

Failed(op, t) ==
    \E i \in 1..Len(log) : log[i] = [op |-> op, table |-> t, ok |-> FALSE]

BothPresent(st) == st["systems"].exists /\ st["waypoints"].exists

StatementsOn(t) == {i \in 1..Len(stmts) : stmts[i].table = t}

\* The rows a complete load of the catalog s puts into each table
ExpectedSystemRows(s) == [i \in 1..Len(s) |-> [symbol |-> s[i].symbol]]

RECURSIVE ExpectedWaypointRows(_, _)
ExpectedWaypointRows(s, n) ==
    IF n = 0 THEN <<>>
    ELSE ExpectedWaypointRows(s, n - 1)
         \o [j \in 1..Len(s[n].waypoints) |->
                [symbol |-> s[n].waypoints[j].symbol, system_symbol |-> s[n].symbol]]

ExpectedRows(t, s) ==
    IF t = "systems" THEN ExpectedSystemRows(s) ELSE ExpectedWaypointRows(s, Len(s))

\* Sum of the waypoint-list lengths of the catalog s
TotalWaypoints(s) ==
    Cardinality(UNION {{<<i, j>> : j \in 1..Len(s[i].waypoints)} : i \in 1..Len(s)})

Ceil(n, p) == (n + p - 1) \div p

Max(a, b) == IF a >= b THEN a ELSE b

\* ---------------------------------------------------------------------
\* Properties
\* ---------------------------------------------------------------------

\* C1: a run that finds a table missing and returns performs exactly one
\* fetch and one load of each table; the run that follows it, with no
\* change made to the store in between, performs no fetch and no store
\* write and leaves both tables as the first run left them.
IdempotentBootstrap ==
    /\ (pc = "menu" /\ ~BothPresent(store0)) =>
          /\ CountOn("fetch", "api") = 1
          /\ \A t \in Tables :
                /\ CountOn("drop", t) = 1
                /\ CountOn("create", t) = 1
                /\ CountOn("begin", t) = 1
                /\ CountOn("commit", t) = 1
    /\ (prev.result = "menu" /\ prev.booted /\ ~external) =>
          /\ pc \notin {"fetch", "fetched"}
          /\ Count({"fetch"} \cup WriteOps) = 0
          /\ stmts = <<>>
          /\ store = store0

IdempotentBootstrapWitness ==
    /\ run = 2
    /\ prev.result = "menu"
    /\ prev.booted
    /\ ~external
    /\ pc = "menu"
    /\ Len(store["waypoints"].rows) > 0

\* C2: after a failure at any step of a bootstrap the cache is absent (at
\* least one of the two tables is missing), and the next run, finding it
\* so, fetches again.
FailureLeavesCacheAbsent ==
    /\ (pc = "panicked" /\ log[Len(log)].op # "select") => ~BothPresent(store)
    /\ (prev.result = "panicked" /\ prev.booted /\ ~external /\ pc = "menu") =>
          CountOn("fetch", "api") = 1

\* C3: a table created by this run shows none of the rows of its load
\* until the load's transaction has committed, and all of them afterwards;
\* a failed insert, a failed commit or the end of the process before the
\* commit leaves it empty.
LoadIsAtomic ==
    \A t \in Tables :
        Succeeded("create", t) =>
            /\ CountOn("begin", t) <= 1
            /\ store[t].rows = IF Succeeded("commit", t)
                                THEN ExpectedRows(t, systems) ELSE <<>>

LoadIsAtomicWitness ==
    /\ pc = "panicked"
    /\ Failed("insert", "waypoints")
    /\ Cardinality(StatementsOn("waypoints")) >= 2
    /\ store["waypoints"].exists
    /\ store["waypoints"].rows = <<>>

\* C4: no insert statement issued by either loader binds more than
\* BIND_LIMIT parameters.
BindLimitRespected ==
    \A i \in 1..Len(stmts) : Binds(stmts[i]) <= BIND_LIMIT

\* C5: after a committed load the systems table has one row per input
\* system and the waypoints table one row per nested waypoint, each input
\* entity exactly once.
RowCountsExact ==
    /\ Succeeded("commit", "systems") =>
          /\ Len(store["systems"].rows) = Len(systems)
          /\ {store["systems"].rows[i].symbol : i \in 1..Len(store["systems"].rows)}
                = {systems[i].symbol : i \in 1..Len(systems)}
    /\ Succeeded("commit", "waypoints") =>
          /\ Len(store["waypoints"].rows) = TotalWaypoints(systems)
          /\ {store["waypoints"].rows[i].symbol : i \in 1..Len(store["waypoints"].rows)}
                = UNION {{systems[i].waypoints[j].symbol : j \in 1..Len(systems[i].waypoints)}
                         : i \in 1..Len(systems)}

RowCountsExactWitness ==
    /\ pc = "menu"
    /\ Len(systems) > SystemsChunkSize
    /\ Len(systems) % SystemsChunkSize # 0
    /\ Len(store["systems"].rows) = Len(systems)
    /\ Len(store["waypoints"].rows) >= 2

\* C6: a run that bootstraps and returns leaves both tables holding
\* exactly the rows of its one fetch result, whatever either table held
\* before.
RebuildsBothTables ==
    (pc = "menu" /\ CountOn("fetch", "api") > 0) =>
        /\ CountOn("fetch", "api") = 1
        /\ BothPresent(store)
        /\ \A t \in Tables : store[t].rows = ExpectedRows(t, systems)

RebuildsBothTablesWitness ==
    /\ pc = "menu"
    /\ CountOn("fetch", "api") = 1
    /\ store0["systems"].exists
    /\ ~store0["waypoints"].exists
    /\ Len(store0["systems"].rows) > Len(systems)
    /\ Len(systems) > 0

\* Position of an operation in the order of a bootstrap run
Rank(e) ==
    CASE e.op = "select" -> IF e.table = "systems" THEN 1 ELSE 2
      [] e.op = "fetch" -> 3
      [] e.op = "drop" -> IF e.table = "systems" THEN 4 ELSE 9
      [] e.op = "create" -> IF e.table = "systems" THEN 5 ELSE 10
      [] e.op = "begin" -> IF e.table = "systems" THEN 6 ELSE 11
      [] e.op = "insert" -> IF e.table = "systems" THEN 7 ELSE 12
      [] e.op = "commit" -> IF e.table = "systems" THEN 8 ELSE 13

\* C7: in a bootstrap run the fetch is called once and returns before any
\* table is dropped, created or written; the systems load (drop, create,
\* inserts, commit) is complete before the waypoints load begins; every
\* statement of both loads is built from the one fetch result.
OrderedBootstrap ==
    /\ CountOn("fetch", "api") <= 1
    /\ \A i \in 1..(Len(log) - 1) :
          /\ log[i].ok
          /\ \/ Rank(log[i + 1]) = Rank(log[i]) + 1
             \/ /\ log[i].op = "insert"
                /\ log[i + 1].op = "insert"
                /\ log[i + 1].table = log[i].table
             \/ /\ log[i].op = "begin"
                /\ log[i + 1].op = "commit"
                /\ log[i + 1].table = log[i].table
    /\ (Len(log) > 0) => Rank(log[1]) = 1
    /\ (pc = "menu" /\ CountOn("fetch", "api") = 1) => Rank(log[Len(log)]) = 13
    /\ \A i \in 1..Len(stmts) : \A j \in 1..Len(stmts[i].rows) :
          \E k \in 1..Len(systems) :
              IF stmts[i].table = "systems"
              THEN stmts[i].rows[j].symbol = systems[k].symbol
              ELSE stmts[i].rows[j].system_symbol = systems[k].symbol

OrderedBootstrapWitness ==
    /\ pc = "menu"
    /\ CountOn("fetch", "api") = 1
    /\ CountOn("insert", "systems") = 1
    /\ CountOn("insert", "waypoints") >= 2

\* C8: when a page request of the fetch fails, no table is dropped,
\* created or written: the store is what it was when the run started and
\* no statement of a load is issued.
FetchFailureLeavesStore ==
    ((pc = "fetched" /\ ~fetch.ok) \/ Failed("fetch", "api")) =>
        /\ store = store0
        /\ Count(WriteOps) = 0
        /\ stmts = <<>>
        /\ pc \in {"fetched", "panicked", "killed"}

FetchFailureLeavesStoreWitness ==
    /\ pc = "panicked"
    /\ Failed("fetch", "api")
    /\ store0["systems"].exists
    /\ Len(store["systems"].rows) > 0

\* C9 as stated: an error raised inside the bootstrap is handed back to
\* the caller, which keeps control; the process is not terminated.
ErrorsReturnedToCaller ==
    (\E i \in 1..Len(log) : ~log[i].ok) => pc # "panicked"

\* C9 as amended: an error raised inside the bootstrap panics at the
\* failing call; it is the last thing the run does, and the process is
\* terminated without reaching the menu.
ErrorsPanic ==
    \A i \in 1..Len(log) : ~log[i].ok => (i = Len(log) /\ pc = "panicked")

ErrorsPanicWitness ==
    /\ pc = "panicked"
    /\ Failed("commit", "waypoints")
    /\ Succeeded("commit", "systems")

\* Page requests of a fetch go 1, 2, ... and none follows a page that
\* satisfied the reported total
RequestsInOrder ==
    /\ \A i \in 1..Len(fetch.requests) : fetch.requests[i] = i
    /\ \A i \in 1..(Len(fetch.requests) - 1) :
          ~(i * fetch.limit >= Len(fetch.upstream))

\* C10 as stated: a fetch in which no page request fails issues exactly
\* ceil(N/P) page requests and returns the N items in upstream order.
PaginationComplete ==
    /\ RequestsInOrder
    /\ (pc = "fetched" /\ fetch.ok) =>
          /\ Len(fetch.requests) = Ceil(Len(fetch.upstream), fetch.limit)
          /\ fetch.acc = fetch.upstream

\* C10 as amended: it issues ceil(N/P) page requests when N > 0 and one
\* page request when N = 0.
PaginationCompleteNonEmpty ==
    /\ RequestsInOrder
    /\ (pc = "fetched" /\ fetch.ok) =>
          /\ Len(fetch.requests) = Max(1, Ceil(Len(fetch.upstream), fetch.limit))
          /\ Len(fetch.requests) * fetch.limit >= Len(fetch.upstream)
          /\ fetch.acc = fetch.upstream
          /\ Len(fetch.acc) = Len(fetch.upstream)

PaginationCompleteWitness ==
    /\ pc = "fetched"
    /\ fetch.ok
    /\ Len(fetch.requests) >= 2
    /\ Len(fetch.upstream) % fetch.limit # 0

\* C14: when the upstream reports an empty catalog, the fetch issues
\* exactly one page request, then ends, and returns the empty sequence.
EmptyCatalogOneRequest ==
    Len(fetch.upstream) = 0 =>
        /\ pc = "fetch" => fetch.requests = <<>>
        /\ pc = "fetched" => fetch.requests = <<1>>
        /\ (pc = "fetched" /\ fetch.ok) => fetch.acc = <<>>

EmptyCatalogOneRequestWitness ==
    /\ pc = "fetched"
    /\ fetch.ok
    /\ Len(fetch.upstream) = 0
    /\ Len(fetch.requests) = 1

\* C15: with k = BIND_LIMIT / 6, the systems loader issues its insert
\* statements in one transaction; the i-th statement holds the rows of
\* input systems (i-1)*k+1 .. min(i*k, N) in input order; when the commit
\* is reached exactly ceil(N/k) statements were issued, none for N = 0.
ChunksCoverInput ==
    LET k == BIND_LIMIT \div SystemsColumns
        N == Len(systems)
        S == StatementsOn("systems")
    IN  /\ \A i \in S :
              /\ i <= Ceil(N, k)
              /\ stmts[i].rows =
                    ExpectedSystemRows(SubSeq(systems, (i - 1) * k + 1, Min(i * k, N)))
        /\ CountOn("begin", "systems") <= 1
        /\ S # {} => Succeeded("begin", "systems")
        /\ CountOn("insert", "systems") = Cardinality(S)
        /\ CountOn("commit", "systems") = 1 => Cardinality(S) = Ceil(N, k)
        /\ (N = 0 /\ pc = "cst_loop") => ENABLED create_systems_table_commit

ChunksCoverInputWitness ==
    /\ Succeeded("commit", "systems")
    /\ Cardinality(StatementsOn("systems")) = 2
    /\ Len(systems) % (BIND_LIMIT \div SystemsColumns) = 1

\* C16: a system with an empty waypoint list gets no insert statement and
\* raises no error; no waypoints statement has an empty row list; the j-th
\* waypoints statement holds the waypoints of the j-th system that has
\* any; when the commit is reached there is one statement per such system.
EmptySystemsSkipped ==
    LET W == StatementsOn("waypoints")
        NonEmpty == {k \in 1..Len(systems) : Len(systems[k].waypoints) > 0}
    IN  /\ \A i \in W :
              /\ stmts[i].rows # <<>>
              /\ \E k \in NonEmpty :
                    /\ stmts[i].rows = ExpectedWaypointRows(<<systems[k]>>, 1)
                    /\ Cardinality({m \in NonEmpty : m < k})
                          = Cardinality({j \in W : j < i})
        /\ CountOn("insert", "waypoints") = Cardinality(W)
        /\ CountOn("commit", "waypoints") = 1 => Cardinality(W) = Cardinality(NonEmpty)

EmptySystemsSkippedWitness ==
    /\ pc = "menu"
    /\ Succeeded("commit", "waypoints")
    /\ StatementsOn("waypoints") # {}
    /\ \E i, j \in 1..Len(systems) :
          /\ i < j
          /\ Len(systems[i].waypoints) = 0
          /\ Len(systems[j].waypoints) > 0

\* C17: after a run that bootstrapped and returned, every waypoints row
\* carries as system_symbol the symbol of a systems row, namely of the
\* system whose waypoint list the row was taken from.
WaypointsReferToSystems ==
    (pc = "menu" /\ Succeeded("commit", "waypoints")) =>
        \A i \in 1..Len(store["waypoints"].rows) :
            LET r == store["waypoints"].rows[i]
            IN  /\ \E j \in 1..Len(store["systems"].rows) :
                      store["systems"].rows[j].symbol = r.system_symbol
                /\ \E k \in 1..Len(systems) :
                      /\ systems[k].symbol = r.system_symbol
                      /\ \E w \in 1..Len(systems[k].waypoints) :
                            systems[k].waypoints[w].symbol = r.symbol

WaypointsReferToSystemsWitness ==
    /\ pc = "menu"
    /\ Succeeded("commit", "waypoints")
    /\ \E i, j \in 1..Len(store["waypoints"].rows) :
          store["waypoints"].rows[i].system_symbol
             # store["waypoints"].rows[j].system_symbol

\* C18: a run that ends by a failure or a kill after a table's CREATE
\* succeeded and before its commit succeeded leaves that table present
\* with no rows; when the table is waypoints, systems is present too,
\* with the rows its own commit made visible.
DdlOutsideTransaction ==
    \A t \in Tables :
        (pc \in {"panicked", "killed"} /\ Succeeded("create", t)
            /\ ~Succeeded("commit", t)) =>
                /\ store[t].exists
                /\ store[t].rows = <<>>
                /\ t = "waypoints" =>
                      /\ store["systems"].exists
                      /\ store["systems"].rows = ExpectedSystemRows(systems)

DdlOutsideTransactionWitness ==
    /\ pc = "panicked"
    /\ Succeeded("create", "waypoints")
    /\ Failed("insert", "waypoints")
    /\ BothPresent(store)
    /\ store["waypoints"].rows = <<>>
    /\ store["systems"].rows # <<>>

\* C11: in every reachable state of the governor the token count is at
\* least zero and at most the capacity, whatever the callers do and
\* however much time passes between their calls; so is every recomputed
\* count a caller holds.
TokenBounds ==
    /\ 0 <= tokens /\ tokens <= Full
    /\ \A c \in Callers : 0 <= reg[c] /\ reg[c] <= Full

TokenBoundsWitness ==
    /\ tokens = Full
    /\ elapsed = 0
    /\ \E c, d \in Callers : gpc[c] = "check" /\ gpc[d] = "granted"

\* A caller is inside the refill-then-consume step
InStep(c) == gpc[c] \in {"refill", "check"}

\* C12: the refill-then-consume step is atomic.  At most one caller is
\* inside it; the count it recomputed is the bucket's count when it
\* consumes; the permits granted never exceed the initial tokens plus the
\* tokens refilled (the difference is the bucket's count); and a step
\* that grants a permit grants one, to one caller, by taking one token off
\* a count of at least one.
PermitsAccounted ==
    /\ [](/\ \A c, d \in Callers : (InStep(c) /\ InStep(d)) => c = d
          /\ \A c \in Callers : gpc[c] = "check" => reg[c] = tokens
          /\ credit = tokens
          /\ credit >= 0)
    /\ [][\A c \in Callers :
            (gpc[c] # "granted" /\ gpc'[c] = "granted") =>
                /\ tokens >= OneToken
                /\ tokens' = tokens - OneToken
                /\ \A d \in Callers \ {c} : gpc'[d] = gpc[d]]_vars

PermitsAccountedWitness ==
    /\ \A c \in Callers : gpc[c] = "granted"
    /\ tokens < OneToken

\* C13: every caller that calls acquire() is eventually granted a permit,
\* however the other callers behave; a caller that waits and rechecks is
\* not overtaken forever.
NoStarvation ==
    \A c \in Callers : (gpc[c] = "lock") ~> (gpc[c] = "granted")

\* Starvation needs competitors that keep coming back: if from some time
\* on no new request calls acquire(), every caller that called it is
\* eventually granted a permit.
NoStarvationOnceCallsEnd ==
    (<>[][~(\E c \in Callers : acquire(c))]_vars) => NoStarvation

====
